---------------------------- MODULE Spec2Model ----------------------------
(***************************************************************************)
(* Model of the DSI package (dsi.py, perturbation.py, verify_tables.py).   *)
(*                                                                         *)
(* compute_dsi converts its input with np.array(values, dtype=float) and   *)
(* computes everything in IEEE-754 binary64.  The arithmetic is modelled   *)
(* bit-exactly: a finite float is sign * (hi * 2^28 + lo) * 2^e, a 53-bit  *)
(* significand held in two words because the integers of the model checker *)
(* are 32 bits wide, and every operation rounds its exact result to 53     *)
(* significant bits, ties to even, with gradual underflow and overflow to  *)
(* infinity.                                                               *)
(*                                                                         *)
(* TLC's coverage statistics copy the body of an operator to every place   *)
(* that applies it and stop only at a recursive application, so operators  *)
(* apply each other through the one recursive operator Invoke (defined     *)
(* after the operations): Invoke("FAdd", <<a, b>>) is FAdd(a, b).          *)
(***************************************************************************)
EXTENDS Integers, Sequences, FiniteSets, TLC

(***************************************************************************)
(* The state.  A caller makes one call at a time: call is the call being   *)
(* made or made last (the operation, its arguments and the process-wide    *)
(* generator as the call found it); outcome is "pending" until the         *)
(* operation has run and then what it returned or raised.                  *)
(* np_random is the process-wide generator of np.random, did tells what    *)
(* the last compute_perturbed_dsi did, earlier keeps the call of           *)
(* compute_perturbed_dsi made before the one in call, and drawn counts     *)
(* the calls of np.random.uniform since the generator was last seeded.     *)
(***************************************************************************)
VARIABLES np_random, call, outcome, did, earlier, drawn

RECURSIVE Invoke(_, _)

\* e, computed after v: Python computes a value where the statement stands,
\* TLC where the value is first used
After(v, e) == CASE v = v -> e

(***************************************************************************)
(* Two-word naturals: <<H, L>> is H * 2^28 + L with 0 <= L < 2^28.         *)
(***************************************************************************)
WordBits == 28

Word == 2 ^ WordBits

RECURSIVE BitLen8(_)
BitLen8(n) == IF n = 0 THEN 0 ELSE 1 + BitLen8(n \div 2)

\* number of significant bits of 0 <= n < 2^31
IntBitLen(n) ==
    IF n >= 16777216 THEN 24 + BitLen8(n \div 16777216)
    ELSE IF n >= 65536 THEN 16 + BitLen8(n \div 65536)
    ELSE IF n >= 256 THEN 8 + BitLen8(n \div 256)
    ELSE BitLen8(n)

W2BitLen(w) ==
    IF w[1] > 0 THEN WordBits + IntBitLen(w[1]) ELSE IntBitLen(w[2])

\* floor(w / 2^k) for 0 <= k
W2Shr(w, k) ==
    IF k = 0 THEN w
    ELSE IF k <= WordBits
    THEN <<w[1] \div (2 ^ k),
           (w[2] \div (2 ^ k)) + (w[1] % (2 ^ k)) * (2 ^ (WordBits - k))>>
    ELSE IF k < 2 * WordBits + 3
    THEN <<(w[1] \div (2 ^ (k - WordBits))) \div Word,
           (w[1] \div (2 ^ (k - WordBits))) % Word>>
    ELSE <<0, 0>>

\* does w mod 2^k differ from 0
W2Lost(w, k) ==
    IF k = 0 THEN FALSE
    ELSE IF k <= WordBits THEN w[2] % (2 ^ k) # 0
    ELSE IF k < 2 * WordBits + 3
    THEN w[2] # 0 \/ w[1] % (2 ^ (k - WordBits)) # 0
    ELSE w[1] # 0 \/ w[2] # 0

\* w mod 2^k compared with 2^(k-1): -1, 0, 1; for 1 <= k <= bit length of w
W2CmpHalf(w, k) ==
    IF k <= WordBits
    THEN (IF w[2] % (2 ^ k) < 2 ^ (k - 1) THEN -1
          ELSE IF w[2] % (2 ^ k) > 2 ^ (k - 1) THEN 1 ELSE 0)
    ELSE (IF w[1] % (2 ^ (k - WordBits)) < 2 ^ (k - WordBits - 1) THEN -1
          ELSE IF w[1] % (2 ^ (k - WordBits)) > 2 ^ (k - WordBits - 1) THEN 1
          ELSE IF w[2] > 0 THEN 1 ELSE 0)

\* w * 2^k, for a result below 2^58
W2Shl(w, k) ==
    IF k = 0 THEN w
    ELSE IF k < WordBits
    THEN <<w[1] * (2 ^ k) + w[2] \div (2 ^ (WordBits - k)),
           (w[2] % (2 ^ (WordBits - k))) * (2 ^ k)>>
    ELSE <<w[2] * (2 ^ (k - WordBits)), 0>>

W2Carry(h, l) == <<h + l \div Word, l % Word>>

W2Add(v, w) == W2Carry(v[1] + w[1], v[2] + w[2])

\* v - w for v >= w
W2Sub(v, w) ==
    IF v[2] >= w[2] THEN <<v[1] - w[1], v[2] - w[2]>>
    ELSE <<v[1] - w[1] - 1, v[2] - w[2] + Word>>

\* -1, 0, 1 as v < w, v = w, v > w
W2Cmp(v, w) ==
    IF v[1] < w[1] THEN -1 ELSE IF v[1] > w[1] THEN 1
    ELSE IF v[2] < w[2] THEN -1 ELSE IF v[2] > w[2] THEN 1 ELSE 0

\* t with its lowest bit set when lost
W2Sticky(t, lost) ==
    IF lost /\ t[2] % 2 = 0 THEN <<t[1], t[2] + 1>> ELSE t

\* floor(w / 2^k) with its lowest bit set when a one was shifted out
W2ShrSticky(w, k) == W2Sticky(W2Shr(w, k), W2Lost(w, k))

(***************************************************************************)
(* IEEE-754 binary64 (numpy's float64, the dtype of line 47 of dsi.py).    *)
(* A float is [k, s, hi, lo, e]: k = "fin" is (-1)^s * (hi*2^28+lo) * 2^e  *)
(* with 2^52 <= hi*2^28+lo < 2^53 (normal) or e = MinExp (subnormal and    *)
(* zero; zero has s = 0: the sign of zero is not kept, no operation of     *)
(* the package reads it); k = "inf" is s-signed infinity; k = "nan" is     *)
(* not-a-number.  The form is canonical, so two floats are the same value  *)
(* exactly when the records are equal.                                     *)
(***************************************************************************)
Precision == 53

MinExp == -1074

MaxExp == 1024

FZero == [k |-> "fin", s |-> 0, hi |-> 0, lo |-> 0, e |-> MinExp]

FNaN == [k |-> "nan", s |-> 0, hi |-> 0, lo |-> 0, e |-> 0]

FInf(s) == [k |-> "inf", s |-> s, hi |-> 0, lo |-> 0, e |-> 0]

FIsZero(a) == a.k = "fin" /\ a.hi = 0 /\ a.lo = 0

\* the float (-1)^s * w * 2^e for a significand w < 2^53 that needs no rounding
FPack(s, w, e) ==
    IF w[1] = 0 /\ w[2] = 0 THEN FZero
    ELSE IF W2BitLen(w) + e > MaxExp THEN FInf(s)
    ELSE [k |-> "fin", s |-> s, hi |-> w[1], lo |-> w[2], e |-> e]

\* t + 1 at the exponent q; a carry out of 53 bits moves to the exponent
FRoundUp(s, t1, q) ==
    IF t1 = <<2 ^ (Precision - WordBits), 0>>
    THEN FPack(s, <<2 ^ (Precision - WordBits - 1), 0>>, q + 1)
    ELSE FPack(s, t1, q)

\* t * 2^q rounded by the bits shifted out of t: cmp is -1, 0, 1 as they are
\* less than, equal to, more than half a unit of t; ties to even
FRoundTies(s, t, cmp, q) ==
    IF cmp > 0 \/ (cmp = 0 /\ t[2] % 2 = 1)
    THEN FRoundUp(s, W2Add(t, <<0, 1>>), q)
    ELSE FPack(s, t, q)

\* w * 2^e with len the bit length of w, at the exponent q
FRoundAt(s, w, e, len, q) ==
    IF q <= e THEN FPack(s, W2Shl(w, e - q), q)
    ELSE IF q - e > len THEN FZero
    ELSE FRoundTies(s, W2Shr(w, q - e), W2CmpHalf(w, q - e), q)

\* the exponent of the binary64 nearest to a len-bit significand times 2^e
FExpOf(e, len) ==
    IF e + len - Precision > MinExp THEN e + len - Precision ELSE MinExp

FRoundLen(s, w, e, len) == FRoundAt(s, w, e, len, FExpOf(e, len))

\* the binary64 nearest to (-1)^s * w * 2^e, for w < 2^58
FRound(s, w, e) ==
    IF w[1] = 0 /\ w[2] = 0 THEN FZero ELSE FRoundLen(s, w, e, W2BitLen(w))

\* float(n) for a Python int n of magnitude below 2^31
FFromInt(n) ==
    IF n < 0 THEN FRound(1, <<(-n) \div Word, (-n) % Word>>, 0)
    ELSE FRound(0, <<n \div Word, n % Word>>, 0)

FNeg(a) == IF a.k = "nan" \/ FIsZero(a) THEN a ELSE [a EXCEPT !.s = 1 - a.s]

FAbs(a) == IF a.k = "nan" THEN a ELSE [a EXCEPT !.s = 0]

\* a finite float's significand with three more bits below it
FWide(a) == <<a.hi * 8 + a.lo \div (2 ^ (WordBits - 3)),
              (a.lo % (2 ^ (WordBits - 3))) * 8>>

\* is |a| < |b|, for finite a and b
FMagLess(a, b) ==
    IF a.e # b.e THEN a.e < b.e
    ELSE IF a.hi # b.hi THEN a.hi < b.hi ELSE a.lo < b.lo

\* big + small for finite floats with |big| >= |small|; small is the wide
\* significand of small aligned to the exponent of big
FAddOrdered(big, small, sameSign) ==
    IF sameSign
    THEN FRound(big.s, W2Add(FWide(big), small), big.e - 3)
    ELSE FRound(big.s, W2Sub(FWide(big), small), big.e - 3)

FAddFinite(a, b) ==
    IF FMagLess(a, b)
    THEN FAddOrdered(b, W2ShrSticky(FWide(a), b.e - a.e), a.s = b.s)
    ELSE FAddOrdered(a, W2ShrSticky(FWide(b), a.e - b.e), a.s = b.s)

\* a + b
FAdd(a, b) ==
    IF a.k = "nan" \/ b.k = "nan" THEN FNaN
    ELSE IF a.k = "inf"
    THEN (IF b.k = "inf" /\ b.s # a.s THEN FNaN ELSE a)
    ELSE IF b.k = "inf" THEN b
    ELSE FAddFinite(a, b)

\* a - b
FSub(a, b) == FAdd(a, FNeg(b))

\* a finite float other than zero as <<w, e>> with 2^52 <= w < 2^53
FNorm(a) ==
    <<W2Shl(<<a.hi, a.lo>>, Precision - W2BitLen(<<a.hi, a.lo>>)),
      a.e - (Precision - W2BitLen(<<a.hi, a.lo>>))>>

LimbBits == 14

Limb == 2 ^ LimbBits

\* the four 14-bit limbs of w < 2^56, least significant first
W2Limbs(w) ==
    <<w[2] % Limb, w[2] \div Limb, w[1] % Limb, w[1] \div Limb>>

\* the seven column sums of the schoolbook product of two four-limb numbers
MulColumns(x, y) ==
    <<x[1] * y[1],
      x[1] * y[2] + x[2] * y[1],
      x[1] * y[3] + x[2] * y[2] + x[3] * y[1],
      x[1] * y[4] + x[2] * y[3] + x[3] * y[2] + x[4] * y[1],
      x[2] * y[4] + x[3] * y[3] + x[4] * y[2],
      x[3] * y[4] + x[4] * y[3],
      x[4] * y[4]>>

\* the limbs i, i + 1, ... of the number with column sums c, carry coming in
RECURSIVE MulDigits(_, _, _)
MulDigits(c, i, carry) ==
    IF i > Len(c) THEN <<carry>>
    ELSE <<(c[i] + carry) % Limb>> \o MulDigits(c, i + 1, (c[i] + carry) \div Limb)

\* the 106-bit product p (eight limbs) of two 53-bit significands, cut to
\* its upper 57 bits, the lowest bit set when a one was cut off
MulWide(p) ==
    W2Sticky(<<(p[8] * Limb + p[7]) * 128 + (p[6] * Limb + p[5]) \div 2097152,
               ((p[6] * Limb + p[5]) % 2097152) * 128
                   + (p[4] * Limb + p[3]) \div 2097152>>,
             p[1] # 0 \/ p[2] # 0 \/ (p[4] * Limb + p[3]) % 2097152 # 0)

\* x * y for normalised <<w, e>>
FMulNorm(s, x, y) ==
    FRound(s, MulWide(MulDigits(MulColumns(W2Limbs(x[1]), W2Limbs(y[1])), 1, 0)),
           x[2] + y[2] + 49)

XorSign(s, t) == IF s = t THEN 0 ELSE 1

\* a * b
FMul(a, b) ==
    IF a.k = "nan" \/ b.k = "nan" THEN FNaN
    ELSE IF a.k = "inf" \/ b.k = "inf"
    THEN (IF FIsZero(a) \/ FIsZero(b) THEN FNaN ELSE FInf(XorSign(a.s, b.s)))
    ELSE IF FIsZero(a) \/ FIsZero(b) THEN FZero
    ELSE FMulNorm(XorSign(a.s, b.s), FNorm(a), FNorm(b))

\* one step of the long division by b: the quotient q and the remainder r
\* doubled, b taken from the remainder when it fits
DivNext(q2, r2, b) ==
    IF W2Cmp(r2, b) >= 0
    THEN [q |-> W2Add(q2, <<0, 1>>), r |-> W2Sub(r2, b)]
    ELSE [q |-> q2, r |-> r2]

DivBit(st, b) == DivNext(W2Add(st.q, st.q), W2Add(st.r, st.r), b)

\* n >= 1 steps of the long division: the first half of them, then the rest
RECURSIVE DivBits(_, _, _)
DivThen(st, b, n) == IF st.q = <<>> THEN st ELSE DivBits(st, b, n)

DivBits(st, b, n) ==
    IF n = 1 THEN DivBit(st, b)
    ELSE DivThen(DivBits(st, b, n \div 2), b, n - (n \div 2))

DivSticky(st) == W2Sticky(st.q, st.r # <<0, 0>>)

\* floor(x * 2^56 / y) for 53-bit x and y, the lowest bit set when inexact
DivWide(x, y) ==
    IF W2Cmp(x, y) >= 0
    THEN DivSticky(DivBits([q |-> <<0, 1>>, r |-> W2Sub(x, y)], y, 56))
    ELSE DivSticky(DivBits([q |-> <<0, 0>>, r |-> x], y, 56))

\* x / y for normalised <<w, e>>
FDivNorm(s, x, y) == FRound(s, DivWide(x[1], y[1]), x[2] - y[2] - 56)

\* a / b; x / 0 is the signed infinity (not-a-number for 0 / 0), as numpy's
\* float64 division gives
FDiv(a, b) ==
    IF a.k = "nan" \/ b.k = "nan" THEN FNaN
    ELSE IF a.k = "inf"
    THEN (IF b.k = "inf" THEN FNaN ELSE FInf(XorSign(a.s, b.s)))
    ELSE IF b.k = "inf" THEN FZero
    ELSE IF FIsZero(b)
    THEN (IF FIsZero(a) THEN FNaN ELSE FInf(a.s))
    ELSE IF FIsZero(a) THEN FZero
    ELSE FDivNorm(XorSign(a.s, b.s), FNorm(a), FNorm(b))

\* a == b
FEq(a, b) == a.k # "nan" /\ b.k # "nan" /\ a = b

\* a < b for floats that are no not-a-number
FLtOrdered(a, b) ==
    IF a.k = "inf" THEN a.s = 1 /\ ~(b.k = "inf" /\ b.s = 1)
    ELSE IF b.k = "inf" THEN b.s = 0
    ELSE IF a.s # b.s THEN a.s = 1
    ELSE IF a.s = 0 THEN FMagLess(a, b) ELSE FMagLess(b, a)

\* a < b
FLt(a, b) == a.k # "nan" /\ b.k # "nan" /\ FLtOrdered(a, b)

\* a <= b
FLe(a, b) == FLt(a, b) \/ FEq(a, b)

\* int(a) for a finite float of magnitude below 2^31: truncation toward zero
FTrunc(a) ==
    IF a.e >= 0 THEN (1 - 2 * a.s) * (a.hi * Word + a.lo) * (2 ^ a.e)
    ELSE (1 - 2 * a.s) * (W2Shr(<<a.hi, a.lo>>, -a.e)[1] * Word
                           + W2Shr(<<a.hi, a.lo>>, -a.e)[2])

(***************************************************************************)
(* numpy: np.array(values, dtype=float), np.mean, np.var, np.abs.  The     *)
(* sums are numpy's pairwise summation (blocks of eight running sums, a    *)
(* split in two above 128 elements), which fixes the order of the float    *)
(* additions and so the rounding of the result.                            *)
(***************************************************************************)
\* a Python int among floats: floats carry k in {"fin", "inf", "nan"}
PyInt(n) == [k |-> "int", s |-> 0, hi |-> 0, lo |-> n, e |-> 0]

\* list(range(1, N + 1)): empty for N < 1
Range1(N) == [i \in 1..N |-> PyInt(i)]

\* the array that holds the elements of f: each one is computed once, when
\* the array is made
ndarray(f) == f \o <<>>

\* np.array(values, dtype=float): every element converted to float64
np_array(values) ==
    ndarray([i \in 1..Len(values) |->
                IF values[i].k = "int" THEN Invoke("FFromInt", <<values[i].lo>>)
                ELSE values[i]])

\* a[lo] + ... + a[hi] added left to right onto res
RECURSIVE SumFrom(_, _, _, _)
SumFrom(a, lo, hi, res) ==
    IF lo > hi \/ res.k = "" THEN res
    ELSE SumFrom(a, lo + 1, hi, Invoke("FAdd", <<res, a[lo]>>))

\* one round of the unrolled block loop: r[j] += a[i + j] for the eight sums
AddEight(a, i, r) ==
    <<Invoke("FAdd", <<r[1], a[i + 1]>>), Invoke("FAdd", <<r[2], a[i + 2]>>),
      Invoke("FAdd", <<r[3], a[i + 3]>>), Invoke("FAdd", <<r[4], a[i + 4]>>),
      Invoke("FAdd", <<r[5], a[i + 5]>>), Invoke("FAdd", <<r[6], a[i + 6]>>),
      Invoke("FAdd", <<r[7], a[i + 7]>>), Invoke("FAdd", <<r[8], a[i + 8]>>)>>

\* count rounds of the unrolled block loop, the first at a[i + 1 .. i + 8]:
\* the first half of the rounds, then the rest
RECURSIVE Unrolled(_, _, _, _)
UnrolledThen(a, i, count, r) ==
    IF r[1].k = "" THEN r ELSE Unrolled(a, i, count, r)

Unrolled(a, i, count, r) ==
    IF count <= 1 THEN (IF count = 1 THEN AddEight(a, i, r) ELSE r)
    ELSE UnrolledThen(a, i + 8 * (count \div 2), count - (count \div 2),
                      Unrolled(a, i, count \div 2, r))

\* ((r[1] + r[2]) + (r[3] + r[4])) + ((r[5] + r[6]) + (r[7] + r[8]))
SumOfEight(r) ==
    Invoke("FAdd",
           <<Invoke("FAdd", <<Invoke("FAdd", <<r[1], r[2]>>),
                              Invoke("FAdd", <<r[3], r[4]>>)>>),
             Invoke("FAdd", <<Invoke("FAdd", <<r[5], r[6]>>),
                              Invoke("FAdd", <<r[7], r[8]>>)>>)>>)

\* the sum of two halves
AddHalves(left, right) ==
    IF left.k = "" \/ right.k = "" THEN left
    ELSE Invoke("FAdd", <<left, right>>)

\* numpy's pairwise summation of a[off + 1 .. off + n]
RECURSIVE pairwise_sum(_, _, _)
pairwise_sum(a, off, n) ==
    IF n > 128
    THEN AddHalves(pairwise_sum(a, off, (n \div 2) - ((n \div 2) % 8)),
                   pairwise_sum(a, off + (n \div 2) - ((n \div 2) % 8),
                                n - ((n \div 2) - ((n \div 2) % 8))))
    ELSE IF n < 8 THEN SumFrom(a, off + 1, off + n, FZero)
    ELSE SumFrom(a, off + n - (n % 8) + 1, off + n,
                 SumOfEight(Unrolled(a, off + 8, (n \div 8) - 1,
                                     <<a[off + 1], a[off + 2], a[off + 3],
                                       a[off + 4], a[off + 5], a[off + 6],
                                       a[off + 7], a[off + 8]>>)))

\* np.add.reduce over a one-dimensional float64 array
np_sum(a) == pairwise_sum(a, 0, Len(a))

\* np.mean(a): the sum divided by the count
np_mean(a) ==
    Invoke("FDiv", <<Invoke("np_sum", <<a>>), Invoke("FFromInt", <<Len(a)>>)>>)

\* a - arrmean, element by element
np_subtract(a, arrmean) ==
    ndarray([i \in 1..Len(a) |-> Invoke("FSub", <<a[i], arrmean>>)])

\* x * x, element by element
np_square(x) == ndarray([i \in 1..Len(x) |-> Invoke("FMul", <<x[i], x[i]>>)])

\* np.abs(x), element by element
np_abs(x) == ndarray([i \in 1..Len(x) |-> FAbs(x[i])])

\* the mean of the squared deviations from arrmean
VarAbout(a, arrmean) ==
    After(arrmean, Invoke("np_mean", <<np_square(np_subtract(a, arrmean))>>))

\* np.var(a, ddof=0)
np_var(a) == VarAbout(a, Invoke("np_mean", <<a>>))

\* how a call ends: with a value, or with an exception and no value
Return(v) == [kind |-> "return", value |-> v]

Raise(exc, msg) == [kind |-> "raise", exc |-> exc, msg |-> msg]

(***************************************************************************)
(* dsi.py                                                                  *)
(***************************************************************************)
MsgTooShort == "Need at least 2 values to compute DSI"

MsgMadZero == "MAD is zero - all values are identical"

\* the literal 4/3
FourThirds == FDiv(FFromInt(4), FFromInt(3))

\* lines 59 to 62 with the variance divided by the deviation, not its square
dsi_over_mad(variance, mad) ==
    After(variance,
          IF FEq(mad, FZero) THEN Raise("ValueError", MsgMadZero)
          ELSE Return(Invoke("FDiv", <<variance, mad>>)))

\* lines 59 to 62 of compute_dsi
dsi_of_moments(variance, mad) ==
    After(variance,
          IF FEq(mad, FZero) THEN Raise("ValueError", MsgMadZero)
          ELSE Return(Invoke("FDiv", <<variance, Invoke("FMul", <<mad, mad>>)>>)))

\* mad = np.mean(np.abs(arr - mean)) of line 57
MadAbout(arr, mean) ==
    After(mean, Invoke("np_mean", <<np_abs(np_subtract(arr, mean))>>))

\* lines 56 and 57
mad_of(arr) == MadAbout(arr, Invoke("np_mean", <<arr>>))

\* lines 49 to 62 of compute_dsi, arr being the float64 array of line 47
dsi_of_array(arr) ==
    IF Len(arr) < 2 THEN Raise("ValueError", MsgTooShort)
    ELSE dsi_of_moments(Invoke("np_var", <<arr>>), Invoke("mad_of", <<arr>>))

\* compute_dsi(values)
compute_dsi(values) == dsi_of_array(Invoke("np_array", <<values>>))

\* the formula with the sign of the correction wrong: (4/3) * (1 + 1/(N**2))
theoretical_plus(N) ==
    IF N = 0 THEN Raise("ZeroDivisionError", "division by zero")
    ELSE Return(FMul(FourThirds,
                     FAdd(FFromInt(1), FDiv(FFromInt(1), FFromInt(N * N)))))

\* compute_dsi_theoretical(N) = (4/3) * (1 - 1/(N**2)), N**2 below 2^31
compute_dsi_theoretical(N) ==
    IF N = 0 THEN Raise("ZeroDivisionError", "division by zero")
    ELSE Return(FMul(FourThirds,
                     FSub(FFromInt(1), FDiv(FFromInt(1), FFromInt(N * N)))))

\* [10**k for k in range(2, 7)]
DefaultNValues == [k \in 1..5 |-> 10 ^ (k + 1)]

\* the loop of dsi_convergence_table from the i-th element of N_values on;
\* an exception of compute_dsi leaves the loop and the function
RECURSIVE ConvergenceLoop(_, _, _)
\* the loop body putting each row in front of the rows before it
ConvergenceRowInFront(N_values, i, results, dsi) ==
    IF dsi.kind = "raise" THEN dsi
    ELSE ConvergenceLoop(N_values, i + 1,
                         <<<<N_values[i], dsi.value,
                             FAbs(FSub(dsi.value, FourThirds))>>>> \o results)

\* the loop body with a failing row left out (try/except around compute_dsi)
ConvergenceRowSkipping(N_values, i, results, dsi) ==
    IF dsi.kind = "raise" THEN ConvergenceLoop(N_values, i + 1, results)
    ELSE ConvergenceLoop(N_values, i + 1,
                         Append(results,
                                <<N_values[i], dsi.value,
                                  FAbs(FSub(dsi.value, FourThirds))>>))

\* the loop body of lines 107 to 110 for the i-th element, dsi being what
\* compute_dsi gave for it
ConvergenceRow(N_values, i, results, dsi) ==
    IF dsi.kind = "raise" THEN dsi
    ELSE ConvergenceLoop(N_values, i + 1,
                         Append(results,
                                <<N_values[i], dsi.value,
                                  FAbs(FSub(dsi.value, FourThirds))>>))

ConvergenceLoop(N_values, i, results) ==
    IF i > Len(N_values) THEN Return(results)
    ELSE ConvergenceRow(N_values, i, results,
                        Invoke("compute_dsi", <<Range1(N_values[i])>>))

\* dsi_convergence_table(*args): args is <<>> when N_values is omitted
dsi_convergence_table(args) ==
    ConvergenceLoop(IF Len(args) = 0 THEN DefaultNValues ELSE args[1], 1, <<>>)

(***************************************************************************)
(* verify_tables.py                                                        *)
(***************************************************************************)
\* the literal 1e-10
Tolerance == FDiv(FFromInt(1), FMul(FFromInt(100000), FFromInt(100000)))

\* one line of the table of verify_convergence_formula, lines 59 to 62
\* abs(computed - formula) < 1e-10
Within(computed, formula) == FLt(FAbs(FSub(computed, formula)), Tolerance)

VerifyLine(N, computed, formula) ==
    [N |-> N, computed |-> computed, formula |-> formula,
     match |-> Within(computed, formula)]

\* formula = (4/3) * (1 - 1/(N**2)) of line 60, N >= 2
verify_formula(N) ==
    FMul(FourThirds, FSub(FFromInt(1), FDiv(FFromInt(1), FFromInt(N * N))))

VerifyStep(N, dsi) ==
    IF dsi.kind = "raise" THEN dsi
    ELSE Return(VerifyLine(N, dsi.value, verify_formula(N)))

\* the body of the loop of verify_convergence_formula for one N
verify_convergence_row(N) == VerifyStep(N, Invoke("compute_dsi", <<Range1(N)>>))

\* the loop of verify_convergence_formula over the list Ns from its i-th
\* element on: one line per N
RECURSIVE VerifyLoop(_, _, _)
VerifyNext(Ns, i, lines, row) ==
    IF row.kind = "raise" THEN row
    ELSE VerifyLoop(Ns, i + 1, Append(lines, row.value))

VerifyLoop(Ns, i, lines) ==
    IF i > Len(Ns) THEN Return(lines)
    ELSE VerifyNext(Ns, i, lines, verify_convergence_row(Ns[i]))

\* the list of line 58
VerifyNs == <<10, 100, 1000, 10000>>

\* verify_convergence_formula() with the list of line 58 as Ns
verify_convergence_formula(Ns) == VerifyLoop(Ns, 1, <<>>)
(***************************************************************************)
(* numpy.random: the process-global legacy generator, a Mersenne Twister   *)
(* MT19937.  A 32-bit word is <<h, l>> = h * 2^16 + l; the generator is    *)
(* [mt, pos], the 624 words of its state (mt[1] is the C array's mt[0])    *)
(* and the index of the next word to hand out.                             *)
(***************************************************************************)
Half == 65536

RECURSIVE XorBits(_, _)
XorBits(a, b) ==
    IF a = 0 THEN b ELSE IF b = 0 THEN a
    ELSE ((a + b) % 2) + 2 * XorBits(a \div 2, b \div 2)

RECURSIVE AndBits(_, _)
AndBits(a, b) ==
    IF a = 0 \/ b = 0 THEN 0
    ELSE ((a % 2) * (b % 2)) + 2 * AndBits(a \div 2, b \div 2)

\* a ^ b and a & b of two 4-bit numbers, at the index 16 * a + b + 1
XorNibble == ndarray([i \in 1..256 |-> XorBits((i - 1) \div 16, (i - 1) % 16)])

AndNibble == ndarray([i \in 1..256 |-> AndBits((i - 1) \div 16, (i - 1) % 16)])

\* a bitwise operation on two 16-bit numbers from its table of nibbles
Bitwise16(tab, a, b) ==
    tab[(a \div 4096) * 16 + (b \div 4096) + 1] * 4096
      + tab[((a \div 256) % 16) * 16 + ((b \div 256) % 16) + 1] * 256
      + tab[((a \div 16) % 16) * 16 + ((b \div 16) % 16) + 1] * 16
      + tab[(a % 16) * 16 + (b % 16) + 1]

WXor(x, y) == <<Bitwise16(XorNibble, x[1], y[1]), Bitwise16(XorNibble, x[2], y[2])>>

WAnd(x, y) == <<Bitwise16(AndNibble, x[1], y[1]), Bitwise16(AndNibble, x[2], y[2])>>

\* x >> k, 0 < k < 32
WShr(x, k) ==
    IF k >= 16 THEN <<0, x[1] \div (2 ^ (k - 16))>>
    ELSE <<x[1] \div (2 ^ k),
           (x[2] \div (2 ^ k)) + (x[1] % (2 ^ k)) * (2 ^ (16 - k))>>

\* (x << k) mod 2^32, 0 < k < 16
WShl(x, k) ==
    <<((x[1] * (2 ^ k)) % Half) + (x[2] \div (2 ^ (16 - k))),
      (x[2] * (2 ^ k)) % Half>>

\* (a * b) mod 2^16 and floor(a * b / 2^16) for 16-bit a and b
Mul16Lo(a, b) == ((a % 256) * b + (((a \div 256) * (b % 256)) % 256) * 256) % Half

Mul16Hi(a, b) ==
    ((a \div 256) * b) \div 256
      + ((((a \div 256) * b) % 256) * 256 + (a % 256) * b) \div Half

\* (x * y) mod 2^32
WMul(x, y) ==
    <<(Mul16Hi(x[2], y[2]) + Mul16Lo(x[1], y[2]) + Mul16Lo(x[2], y[1])) % Half,
      Mul16Lo(x[2], y[2])>>

\* (x + n) mod 2^32 for 0 <= n < 2^16
WAddInt(x, n) == <<(x[1] + (x[2] + n) \div Half) % Half, (x[2] + n) % Half>>

\* the multiplier 1812433253 of init_genrand
InitMultiplier == <<27655, 35173>>

\* 0x9908b0df
MatrixA == <<39176, 45279>>

\* 0x9d2c5680 and 0xefc60000
TemperB == <<40236, 22144>>

TemperC == <<61382, 0>>

StateLen == 624

ShiftM == 397

\* mt[i] = 1812433253 * (mt[i-1] ^ (mt[i-1] >> 30)) + i   (mod 2^32)
InitNext(prev, i) == WAddInt(WMul(InitMultiplier, WXor(prev, WShr(prev, 30))), i)

\* extends mt by the words lo..hi: the first half of them, then the rest
RECURSIVE InitFill(_, _, _)
InitThen(mt, lo, hi) == IF mt = <<>> THEN mt ELSE InitFill(mt, lo, hi)

InitFill(mt, lo, hi) ==
    IF lo = hi THEN Append(mt, InitNext(mt[lo], lo))
    ELSE InitThen(InitFill(mt, lo, (lo + hi) \div 2), (lo + hi) \div 2 + 1, hi)

\* np.random.seed(seed) for 0 <= seed < 2^31: init_genrand, the position at
\* the end of the array
init_genrand(seed) ==
    [mt |-> InitFill(<<<<seed \div Half, seed % Half>>>>, 1, StateLen - 1),
     pos |-> StateLen]

\* y = (cur & 0x80000000) | (nxt & 0x7fffffff)
TwistMix(cur, nxt) == <<((cur[1] \div 32768) * 32768) + (nxt[1] % 32768), nxt[2]>>

\* mt[kk + M] ^ (y >> 1) ^ mag01[y & 1]
TwistOf(far, y) ==
    IF y[2] % 2 = 1 THEN WXor(WXor(far, WShr(y, 1)), MatrixA)
    ELSE WXor(far, WShr(y, 1))

\* the new word for cur = mt[kk], nxt = mt[kk + 1] and far, the word M places
\* on (cyclically)
TwistWord(cur, nxt, far) == TwistOf(far, TwistMix(cur, nxt))

\* the first loop of the regeneration, kk = 0 .. N - M - 1: every word read
\* is an old one
TwistFirst(mt) ==
    ndarray([j \in 1..(StateLen - ShiftM) |->
                TwistWord(mt[j], mt[j + 1], mt[j + ShiftM])])

\* the second loop, kk = N - M .. N - 2, reads mt[kk + (M - N)], a word
\* already renewed: by the first loop for the N - M words of TwistSecond,
\* by TwistSecond for the words of TwistThird
TwistSecond(mt, first) ==
    ndarray([j \in 1..(StateLen - ShiftM) |->
                TwistWord(mt[StateLen - ShiftM + j], mt[StateLen - ShiftM + j + 1],
                          first[j])])

TwistThird(mt, second) ==
    ndarray([j \in 1..(2 * ShiftM - StateLen - 1) |->
                TwistWord(mt[2 * (StateLen - ShiftM) + j],
                          mt[2 * (StateLen - ShiftM) + j + 1], second[j])])

\* the last word: mt[N - 1] with the renewed mt[0] and mt[M - 1]
TwistLast(mt, first, second) ==
    TwistWord(mt[StateLen], first[1], second[2 * ShiftM - StateLen])

TwistJoin(mt, first, second) ==
    first \o second \o TwistThird(mt, second) \o <<TwistLast(mt, first, second)>>

TwistFrom(mt, first) == TwistJoin(mt, first, TwistSecond(mt, first))

\* the regeneration of all 624 words
mt19937_gen(mt) == TwistFrom(mt, TwistFirst(mt))

TemperShr(y, k) == WXor(y, WShr(y, k))

TemperShl(y, k, mask) == WXor(y, WAnd(WShl(y, k), mask))

\* y ^= y >> 11; y ^= (y << 7) & B; y ^= (y << 15) & C; y ^= y >> 18
Temper(y) == TemperShr(TemperShl(TemperShl(TemperShr(y, 11), 7, TemperB), 15, TemperC), 18)

\* the generator ready to hand out a word
Refill(g) == IF g.pos = StateLen THEN [mt |-> mt19937_gen(g.mt), pos |-> 0] ELSE g

DrawFrom(g) == [word |-> Temper(g.mt[g.pos + 1]), g |-> [g EXCEPT !.pos = g.pos + 1]]

\* next_uint32: the word drawn and the generator after the draw
next_uint32(g) == DrawFrom(Refill(g))

\* the smallest 2^k - 1 >= max
RECURSIVE MaskFor(_)
MaskFor(max) == IF max = 0 THEN 0 ELSE 2 * MaskFor(max \div 2) + 1

\* word & mask for a mask 2^k - 1 < 2^31
MaskWord(w, mask) ==
    IF mask < Half THEN w[2] % (mask + 1)
    ELSE (w[1] % ((mask \div Half) + 1)) * Half + w[2]

\* random_interval(max): rejection sampling of a value in 0..max
RECURSIVE IntervalLoop(_, _, _)
IntervalTry(d, max, mask) ==
    IF MaskWord(d.word, mask) <= max
    THEN [value |-> MaskWord(d.word, mask), g |-> d.g]
    ELSE IntervalLoop(d.g, max, mask)

IntervalLoop(g, max, mask) == IntervalTry(next_uint32(g), max, mask)

random_interval(g, max) ==
    IF max = 0 THEN [value |-> 0, g |-> g] ELSE IntervalLoop(g, max, MaskFor(max))

\* the array a with its elements i and j exchanged (a[k + 1] is element k)
Swap(a, i, j) == [a EXCEPT ![i + 1] = a[j + 1], ![j + 1] = a[i + 1]]

ShuffleSwap(a, i, r) == [a |-> Swap(a, i, r.value), g |-> r.g]

\* one step of the shuffle: j = random_interval(i), swap a[i] and a[j]
ShuffleStep(st, i) == ShuffleSwap(st.a, i, random_interval(st.g, i))

\* the steps i = hi, hi - 1, ..., lo of the shuffle, hi >= lo: the first half
\* of them, then the rest
RECURSIVE ShuffleRange(_, _, _)
ShuffleThen(st, hi, lo) == IF st.a = <<>> THEN st ELSE ShuffleRange(st, hi, lo)

ShuffleRange(st, hi, lo) ==
    IF hi = lo THEN ShuffleStep(st, hi)
    ELSE ShuffleThen(ShuffleRange(st, hi, (hi + lo + 1) \div 2),
                     (hi + lo + 1) \div 2 - 1, lo)

\* RandomState.permutation(n): np.arange(n) shuffled for i = n - 1 .. 1
permutation(g, n) ==
    IF n < 2 THEN [a |-> ndarray([k \in 1..n |-> k - 1]), g |-> g]
    ELSE ShuffleRange([a |-> ndarray([k \in 1..n |-> k - 1]), g |-> g], n - 1, 1)

ChoiceOf(p, size) == [idx |-> SubSeq(p.a, 1, size), g |-> p.g]

\* RandomState.choice(n, size, replace=False) = permutation(n)[:size]
choice(g, n, size) == ChoiceOf(permutation(g, n), size)

(***************************************************************************)
(* perturbation.py.  The process-wide generator of np.random is a value g  *)
(* that every operation using it takes and hands back.                     *)
(***************************************************************************)
\* np.random.seed(seed)
np_random_seed(seed) == init_genrand(seed)

\* random_double: (a >> 5, b >> 6) -> (a * 2^26 + b) / 2^53
DoubleOf(a, b) == FRound(0, <<a \div 4, (a % 4) * 67108864 + b>>, -53)

DoubleFrom(d1, d2) ==
    [value |-> DoubleOf(d1.word[1] * (Half \div 32) + d1.word[2] \div 32,
                        d2.word[1] * (Half \div 64) + d2.word[2] \div 64),
     g |-> d2.g]

DoubleNext(d1) == DoubleFrom(d1, next_uint32(d1.g))

\* np.random.uniform(0, 1): one double drawn from g
np_random_uniform(g) == DoubleNext(next_uint32(g))

\* np.arange(N, dtype=float): the base sequence started at 0
np_arange0(N) == ndarray([k \in 1..N |-> Invoke("FFromInt", <<k - 1>>)])

\* np.arange(1, N + 1, dtype=float)
np_arange1(N) == ndarray([k \in 1..N |-> Invoke("FFromInt", <<k>>)])

\* R[perturb_indices] *= factor for the indices lo..hi of perturb_indices
\* (0-based positions of R), each product taken from the array R as it was:
\* the first half of the indices, then the rest
RECURSIVE ScaleRange(_, _, _, _, _, _)
ScaleThen(out, R, perturb_indices, lo, hi, factor) ==
    IF out = <<>> THEN out ELSE ScaleRange(out, R, perturb_indices, lo, hi, factor)

ScaleRange(out, R, perturb_indices, lo, hi, factor) ==
    IF lo = hi
    THEN [out EXCEPT ![perturb_indices[lo] + 1] =
                         Invoke("FMul", <<R[perturb_indices[lo] + 1], factor>>)]
    ELSE ScaleThen(ScaleRange(out, R, perturb_indices, lo, (lo + hi) \div 2,
                              factor),
                   R, perturb_indices, (lo + hi) \div 2 + 1, hi, factor)

\* the seed of line 48
PerturbSeed == 42

\* the end of compute_perturbed_dsi: R is handed to compute_dsi; the record
\* tells what the call did (the indices chosen, whether the generator was
\* reseeded), what it returns and the generator it leaves
Perturbed(R, indices, reseeded, g) ==
    After(R, [result |-> Invoke("compute_dsi", <<R>>), handed |-> <<R>>,
              indices |-> indices, reseeded |-> reseeded, g |-> g])

\* lines 53 and 55 with c, the indices chosen at line 49 and the generator
\* after the choice
PerturbAt(R, c, factor) ==
    After(c, Perturbed(ScaleRange(R, R, c.idx, 1, Len(c.idx), factor),
                       c.idx, TRUE, c.g))

\* line 49 with the generator as line 48 seeded it; choice raises when asked
\* for more indices than there are
PerturbChoose(R, N, n_perturb, factor, seeded) ==
    After(seeded,
          IF n_perturb > N
          THEN [result |->
                    Raise("ValueError",
                          "Cannot take a larger sample than population when 'replace=False'"),
                handed |-> <<>>, indices |-> <<>>, reseeded |-> TRUE,
                g |-> seeded]
          ELSE PerturbAt(R, choice(seeded, N, n_perturb), factor))

\* lines 46 to 55 without the seeding of line 48: the choice of line 49 made
\* with the generator as the call found it
PerturbSomeUnseeded(R, N, n_perturb, factor, g) ==
    After(R, IF n_perturb > 0
             THEN PerturbChoose(R, N, n_perturb, factor, g)
             ELSE Perturbed(R, <<>>, FALSE, g))

\* lines 46 to 55
PerturbSome(R, N, n_perturb, factor, g) ==
    After(R, IF n_perturb > 0
             THEN PerturbChoose(R, N, n_perturb, factor,
                                np_random_seed(PerturbSeed))
             ELSE Perturbed(R, <<>>, FALSE, g))

\* compute_perturbed_dsi(N, perturbation_fraction, perturbation_magnitude)
\* run with the process-wide generator g
compute_perturbed_dsi(g, N, perturbation_fraction, perturbation_magnitude) ==
    PerturbSome(np_arange1(N), N,
                FTrunc(FMul(FFromInt(N), perturbation_fraction)),
                FAdd(FFromInt(1), perturbation_magnitude), g)

\* the literals of the scenarios
Lit0 == FZero

LitHalf == FDiv(FFromInt(1), FFromInt(2))

LitPercent(n) == FDiv(FFromInt(n), FFromInt(100))

\* N of line 68
TableN == 10000

\* the scenarios with the 5% and the 10% rows exchanged
scenarios_exchanged ==
    <<[frac |-> Lit0, mag |-> Lit0, desc |-> "None (RH)"],
      [frac |-> LitPercent(1), mag |-> LitHalf, desc |-> "1% at σ=0.6"],
      [frac |-> LitPercent(10), mag |-> LitHalf, desc |-> "10% at σ=0.6"],
      [frac |-> LitPercent(5), mag |-> LitHalf, desc |-> "5% at σ=0.6"]>>

\* lines 71 to 76
scenarios ==
    <<[frac |-> Lit0, mag |-> Lit0, desc |-> "None (RH)"],
      [frac |-> LitPercent(1), mag |-> LitHalf, desc |-> "1% at σ=0.6"],
      [frac |-> LitPercent(5), mag |-> LitHalf, desc |-> "5% at σ=0.6"],
      [frac |-> LitPercent(10), mag |-> LitHalf, desc |-> "10% at σ=0.6"]>>

\* deviation_pct = 100 * (dsi - target) / target
deviation_pct(dsi, target) ==
    FDiv(FMul(FFromInt(100), FSub(dsi, target)), target)

\* the loop of lines 79 to 82 from scenario i on
RECURSIVE SensitivityLoop(_, _, _)
SensitivityRow(i, results, p) ==
    IF p.result.kind = "raise" THEN [result |-> p.result, g |-> p.g]
    ELSE SensitivityLoop(i + 1,
                         Append(results,
                                <<scenarios[i].desc, p.result.value,
                                  deviation_pct(p.result.value, FourThirds)>>),
                         p.g)

SensitivityLoop(i, results, g) ==
    IF i > Len(scenarios) THEN [result |-> Return(results), g |-> g]
    ELSE SensitivityRow(i, results,
                        Invoke("compute_perturbed_dsi",
                               <<g, TableN, scenarios[i].frac, scenarios[i].mag>>))

\* perturbation_sensitivity_table() run with the process-wide generator g
perturbation_sensitivity_table(g) == SensitivityLoop(1, <<>>, g)
(***************************************************************************)
(* Application of an operator by name.                                     *)
(***************************************************************************)
Invoke(f, p) ==
    CASE f = "FAdd" -> FAdd(p[1], p[2])
      [] f = "FSub" -> FSub(p[1], p[2])
      [] f = "FMul" -> FMul(p[1], p[2])
      [] f = "FDiv" -> FDiv(p[1], p[2])
      [] f = "FFromInt" -> FFromInt(p[1])
      [] f = "np_array" -> np_array(p[1])
      [] f = "np_sum" -> np_sum(p[1])
      [] f = "np_mean" -> np_mean(p[1])
      [] f = "np_var" -> np_var(p[1])
      [] f = "mad_of" -> mad_of(p[1])
      [] f = "compute_dsi" -> compute_dsi(p[1])
      [] f = "compute_perturbed_dsi" ->
             compute_perturbed_dsi(p[1], p[2], p[3], p[4])

(***************************************************************************)
(* The package in use: the calls a caller makes and the operations that   *)
(* run them.                                                               *)
(***************************************************************************)
vars == <<np_random, call, outcome, did, earlier, drawn>>

\* the longest list handed to compute_dsi
MaxLen == 3

\* the largest N of the sequences 1..N
MaxN == 12

\* the longest N_values and its largest element
MaxRows == 3

MaxTableN == 4

\* the largest N of compute_perturbed_dsi
MaxPerturbN == 5

\* the calls of np.random.uniform between two seedings
MaxDraws == 2

\* the lists of at most n elements of S
Lists(S, n) == UNION {[1..m -> S] : m \in 0..n}

\* the literals 0.1, 1.0 and 2.0, and 2.0 ** 1000, whose square overflows
LitTenth == LitPercent(10)

LitOne == FFromInt(1)

LitTwo == FFromInt(2)

Huge == FPack(0, <<2 ^ 24, 0>>, 948)

\* the elements of the lists handed to compute_dsi
DsiValues == {PyInt(1), PyInt(2), PyInt(5), LitTenth, LitHalf}

DsiInputs ==
    Lists(DsiValues, MaxLen) \cup {ndarray(Range1(n)) : n \in 0..MaxN}
        \cup {<<Huge, FNeg(Huge)>>}

\* the generator of a process that starts: seeded from the system's entropy,
\* any seed; the seeds a caller gives np.random.seed
SeedValues == {0, PerturbSeed}

StartGenerators == {np_random_seed(n) : n \in SeedValues}

Fractions == {Lit0, LitTenth, LitHalf, LitOne, LitTwo}

Magnitudes == {Lit0, LitHalf}

\* the arguments of compute_perturbed_dsi, called once and called in turn
PerturbArgs == (2..MaxPerturbN) \X Fractions \X Magnitudes

SeqPerturbArgs == {MaxPerturbN} \X {Lit0, LitHalf} \X {LitHalf}

\* the list a caller hands to compute_dsi between other calls: [1, 2]
SeqDsiArgs == <<ndarray(Range1(2))>>

Pending == [kind |-> "pending"]

None == "None"

Nothing == [handed |-> <<>>, indices |-> <<>>, reseeded |-> FALSE]

NoCall == [kind |-> "none"]

\* the operation has run
Done == outcome.kind \in {"return", "raise"}

\* the call of op with args is being made
Calling(op, args) == call = [op |-> op, args |-> args, entry |-> np_random]

\* the process starts and nothing has been called
Init ==
    /\ np_random \in StartGenerators
    /\ Calling("start", <<>>)
    /\ outcome = NoCall
    /\ did = Nothing
    /\ earlier = NoCall
    /\ drawn = 0

\* the process starts and makes one call
InitOnce ==
    /\ np_random \in StartGenerators
    /\ \/ \E v \in DsiInputs : Calling("compute_dsi", <<v>>)
       \/ \E n \in 0..MaxN : Calling("compute_dsi_theoretical", <<n>>)
       \/ \E l \in Lists(0..MaxTableN, MaxRows) :
              Calling("dsi_convergence_table", <<l>>)
       \/ \E n \in 0..MaxN : Calling("verify_convergence_formula", <<<<n>>>>)
       \/ Calling("verify_convergence_formula", <<VerifyNs>>)
       \/ \E a \in PerturbArgs : Calling("compute_perturbed_dsi", a)
    /\ outcome = Pending
    /\ did = Nothing
    /\ earlier = NoCall
    /\ drawn = 0

\* python perturbation.py: the process starts and prints the table
InitTable ==
    /\ np_random \in StartGenerators
    /\ Calling("perturbation_sensitivity_table", <<>>)
    /\ outcome = Pending
    /\ did = Nothing
    /\ earlier = NoCall
    /\ drawn = 0

\* the call of compute_perturbed_dsi kept when the caller makes the next call
Kept ==
    IF call.op = "compute_perturbed_dsi"
    THEN [kind |-> "call", args |-> call.args, entry |-> call.entry,
          indices |-> did.indices, result |-> outcome, between |-> FALSE]
    ELSE IF earlier.kind = "call" THEN [earlier EXCEPT !.between = TRUE]
    ELSE earlier

\* the caller makes the call of op with args
Request(op, args) ==
    /\ outcome.kind # "pending"
    /\ call' = [op |-> op, args |-> args, entry |-> np_random]
    /\ outcome' = Pending
    /\ earlier' = Kept
    /\ UNCHANGED <<np_random, did, drawn>>

\* the caller's own use of the generator
CallerDraws ==
    \/ \E n \in SeedValues : Request("np_random_seed", <<n>>)
    \/ drawn < MaxDraws /\ Request("np_random_uniform", <<>>)

\* the caller's next call
Caller ==
    \/ \E a \in SeqPerturbArgs : Request("compute_perturbed_dsi", a)
    \/ Request("compute_dsi", SeqDsiArgs)
    \/ CallerDraws

\* the operation op is to run
Called(op) == outcome.kind = "pending" /\ call.op = op

\* the operation ends with res, leaves the generator gen, has done what
Finish(res, gen, what, count) ==
    /\ outcome' = res
    /\ np_random' = gen
    /\ did' = what
    /\ drawn' = count
    /\ UNCHANGED <<call, earlier>>

ComputeDsi ==
    /\ Called("compute_dsi")
    /\ Finish(Invoke("compute_dsi", <<call.args[1]>>), np_random, Nothing, drawn)

ComputeDsiTheoretical ==
    /\ Called("compute_dsi_theoretical")
    /\ Finish(compute_dsi_theoretical(call.args[1]), np_random, Nothing, drawn)

DsiConvergenceTable ==
    /\ Called("dsi_convergence_table")
    /\ Finish(dsi_convergence_table(call.args), np_random, Nothing, drawn)

VerifyConvergenceFormula ==
    /\ Called("verify_convergence_formula")
    /\ Finish(verify_convergence_formula(call.args[1]), np_random, Nothing, drawn)

FinishPerturbed(p) ==
    Finish(p.result, p.g,
           [handed |-> p.handed, indices |-> p.indices, reseeded |-> p.reseeded],
           IF p.reseeded THEN 0 ELSE drawn)

ComputePerturbedDsi ==
    /\ Called("compute_perturbed_dsi")
    /\ FinishPerturbed(Invoke("compute_perturbed_dsi",
                              <<np_random, call.args[1], call.args[2],
                                call.args[3]>>))

FinishTable(t) == Finish(t.result, t.g, Nothing, 0)

PerturbationSensitivityTable ==
    /\ Called("perturbation_sensitivity_table")
    /\ FinishTable(perturbation_sensitivity_table(np_random))

NpRandomSeed ==
    /\ Called("np_random_seed")
    /\ Finish(Return(None), np_random_seed(call.args[1]), Nothing, 0)

FinishDraw(d) == Finish(Return(d.value), d.g, Nothing, drawn + 1)

NpRandomUniform ==
    /\ Called("np_random_uniform")
    /\ FinishDraw(np_random_uniform(np_random))

\* calls one after the other
Next ==
    \/ Caller
    \/ ComputeDsi
    \/ ComputePerturbedDsi
    \/ NpRandomSeed
    \/ NpRandomUniform

Spec == Init /\ [][Next]_vars

\* one call
NextOnce ==
    \/ ComputeDsi
    \/ ComputeDsiTheoretical
    \/ DsiConvergenceTable
    \/ VerifyConvergenceFormula
    \/ ComputePerturbedDsi

SpecOnce == InitOnce /\ [][NextOnce]_vars

\* the table first, then calls one after the other
NextTable ==
    \/ PerturbationSensitivityTable
    \/ Next

SpecTable == InitTable /\ [][NextTable]_vars

(***************************************************************************)
(* Properties.  SpecOnce is the specification of C1 to C4 and C8 to C10,   *)
(* Spec of C5 and C6, SpecTable of C7.                                     *)
(***************************************************************************)
\* the list handed to compute_dsi is 1, 2, ..., N for its length N
OfRange == \A i \in 1..Len(call.args[1]) : call.args[1][i] = PyInt(i)

C2_ErrorOfEveryInput ==
    (Done /\ call.op = "compute_dsi") =>
        IF Len(call.args[1]) < 2
        THEN outcome = Raise("ValueError", MsgTooShort)
        ELSE IF \A i \in 1..Len(call.args[1]) : call.args[1][i] = call.args[1][1]
        THEN outcome = Raise("ValueError", MsgMadZero)
        ELSE outcome.kind = "return"

\* C3: for N_values all >= 2, dsi_convergence_table returns one row per
\* element, in the order of the elements, the i-th row being
\* (N_i, d_i, |d_i - 4/3|) with d_i = compute_dsi(1, ..., N_i); the list used
\* when N_values is omitted is 10^2, 10^3, 10^4, 10^5, 10^6
C3_RowPerElement ==
    /\ DefaultNValues = <<100, 1000, 10000, 100000, 1000000>>
    /\ (Done /\ call.op = "dsi_convergence_table"
             /\ \A i \in 1..Len(call.args[1]) : call.args[1][i] >= 2) =>
           /\ outcome.kind = "return"
           /\ Len(outcome.value) = Len(call.args[1])
           /\ \A i \in 1..Len(call.args[1]) :
                  /\ Len(outcome.value[i]) = 3
                  /\ outcome.value[i][1] = call.args[1][i]
                  /\ Return(outcome.value[i][2]) =
                         compute_dsi(Range1(call.args[1][i]))
                  /\ outcome.value[i][3] =
                         FAbs(FSub(outcome.value[i][2], FourThirds))

\* C3, reached: a table of three rows returned for a list that goes down and
\* then repeats an element
C3_RowsOutOfOrder ==
    /\ Done
    /\ call.op = "dsi_convergence_table"
    /\ outcome.kind = "return"
    /\ Len(outcome.value) = 3
    /\ call.args[1][1] > call.args[1][2]
    /\ call.args[1][2] = call.args[1][3]
    /\ call.args[1][3] >= 2

\* C4: dsi_convergence_table fails exactly when some element of N_values is
\* below 2, and then with the error of compute_dsi and no rows
C4_FailsWithoutRows ==
    (Done /\ call.op = "dsi_convergence_table") =>
        /\ outcome.kind = "raise"
               <=> \E i \in 1..Len(call.args[1]) : call.args[1][i] < 2
        /\ outcome.kind = "raise" => outcome = Raise("ValueError", MsgTooShort)

\* C4, reached: the table has failed on a later element after computing the
\* row of the first
C4_FailedAfterARow ==
    /\ Done
    /\ call.op = "dsi_convergence_table"
    /\ outcome.kind = "raise"
    /\ Len(call.args[1]) >= 2
    /\ call.args[1][1] >= 2

\* C5: a call of compute_perturbed_dsi and the call of it before, made with
\* the same arguments, choose the same indices and end the same way,
\* whatever the generator was at either call and whatever was called between
C5_Reproducible ==
    (Done /\ call.op = "compute_perturbed_dsi" /\ earlier.kind = "call"
          /\ earlier.args = call.args) =>
        /\ did.indices = earlier.indices
        /\ outcome = earlier.result

\* C5, reached: two calls with the same arguments that choose indices, the
\* generator different at the two calls and other calls made between them
C5_SameAfterOtherCalls ==
    /\ Done
    /\ call.op = "compute_perturbed_dsi"
    /\ earlier.kind = "call"
    /\ earlier.args = call.args
    /\ earlier.between
    /\ earlier.entry # call.entry
    /\ did.indices # <<>>
    /\ outcome.kind = "return"

\* C6, as stated: when a core operation has run, the process-wide generator
\* is as it was when the operation was called
C6_GeneratorUntouched ==
    (Done /\ call.op \in {"compute_dsi", "compute_perturbed_dsi"}) =>
        np_random = call.entry

\* C7: perturbation_sensitivity_table returns 4 rows, "None (RH)",
\* "1% at σ=0.6", "5% at σ=0.6", "10% at σ=0.6" in this order, for N = 10000
\* and magnitude 0.5 in the perturbed rows, each with the deviation
\* 100 * (dsi - 4/3) / (4/3); the first row has the DSI of 1, ..., 10000 and
\* a deviation that is 0.00 to two decimals (it is below zero), the
\* deviations of rows 2 to 4 are above zero and grow
C7_SensitivityRows ==
    (Done /\ call.op = "perturbation_sensitivity_table") =>
        /\ outcome.kind = "return"
        /\ Len(outcome.value) = 4
        /\ [i \in 1..4 |-> outcome.value[i][1]] =
               <<"None (RH)", "1% at σ=0.6", "5% at σ=0.6", "10% at σ=0.6">>
        /\ TableN = 10000
        /\ \A i \in 2..4 : scenarios[i].mag = LitHalf
        /\ \A i \in 1..4 :
               outcome.value[i][3] =
                   FDiv(FMul(FFromInt(100), FSub(outcome.value[i][2], FourThirds)),
                        FourThirds)
        /\ FLt(FAbs(outcome.value[1][3]), FDiv(FFromInt(5), FFromInt(1000)))
        /\ FLt(Lit0, outcome.value[2][3])
        /\ FLt(outcome.value[2][3], outcome.value[3][3])
        /\ FLt(outcome.value[3][3], outcome.value[4][3])
        /\ Return(outcome.value[1][2]) = compute_dsi(Range1(TableN))

\* C7, reached: the table has been returned, its first deviation below zero
C7_TableReturned ==
    /\ Done
    /\ call.op = "perturbation_sensitivity_table"
    /\ outcome.kind = "return"
    /\ Len(outcome.value) = 4
    /\ FLt(outcome.value[1][3], Lit0)

\* C8, as stated: compute_dsi([1, 2, 3, 4, 5]) returns exactly 1.2
C8_DocstringValue ==
    (Done /\ call.op = "compute_dsi" /\ Len(call.args[1]) = 5 /\ OfRange) =>
        outcome = Return(FDiv(FFromInt(12), FFromInt(10)))

\* the arguments of compute_perturbed_dsi are those C9 speaks of: N >= 2,
\* 0 <= fraction <= 1, magnitude >= 0
C9_Case ==
    /\ Done
    /\ call.op = "compute_perturbed_dsi"
    /\ call.args[1] >= 2
    /\ FLe(Lit0, call.args[2])
    /\ FLe(call.args[2], LitOne)
    /\ FLe(Lit0, call.args[3])

\* the sequence handed to compute_dsi has length N and holds k * (1 +
\* magnitude) at the positions chosen and k at the others, the positions
\* chosen being floor(N * fraction) different ones (N * fraction the float
\* product); the call ends as compute_dsi of that sequence does, which with
\* no position chosen or magnitude 0 is compute_dsi(1, ..., N)
C9_Handed ==
    /\ Len(did.handed) = 1
    /\ Len(did.handed[1]) = call.args[1]
    /\ Len(did.indices) \in 0..call.args[1]
    /\ FLe(FFromInt(Len(did.indices)),
           FMul(FFromInt(call.args[1]), call.args[2]))
    /\ FLt(FMul(FFromInt(call.args[1]), call.args[2]),
           FFromInt(Len(did.indices) + 1))
    /\ \A i, j \in 1..Len(did.indices) :
           /\ did.indices[i] \in 0..(call.args[1] - 1)
           /\ i # j => did.indices[i] # did.indices[j]
    /\ \A k \in 1..call.args[1] :
           did.handed[1][k] =
               IF \E i \in 1..Len(did.indices) : did.indices[i] = k - 1
               THEN FMul(FFromInt(k), FAdd(LitOne, call.args[3]))
               ELSE FFromInt(k)
    /\ outcome = compute_dsi(did.handed[1])
    /\ (did.indices = <<>> \/ call.args[3] = Lit0) =>
           outcome = compute_dsi(Range1(call.args[1]))

\* C9, as stated: ... and when n_perturb = 0 or magnitude = 0 no index is
\* chosen
C9_NoSelectionAtMagnitudeZero ==
    C9_Case =>
        /\ C9_Handed
        /\ (Len(did.indices) = 0 \/ call.args[3] = Lit0) =>
               /\ did.indices = <<>>
               /\ ~did.reseeded
               /\ np_random = call.entry

\* C9, amended: ... no index is chosen, and the generator is left alone,
\* exactly when floor(N * fraction) = 0; with magnitude 0 and
\* floor(N * fraction) > 0 the generator is seeded and the indices are chosen
C9_SelectionByFractionAlone ==
    C9_Case =>
        /\ C9_Handed
        /\ IF FLt(FMul(FFromInt(call.args[1]), call.args[2]), LitOne)
           THEN did.indices = <<>> /\ ~did.reseeded /\ np_random = call.entry
           ELSE did.indices # <<>> /\ did.reseeded
                  /\ np_random # np_random_seed(PerturbSeed)

\* C9, reached: some but not all positions perturbed by half
C9_SomePerturbed ==
    /\ C9_Case
    /\ outcome.kind = "return"
    /\ call.args[3] = LitHalf
    /\ Len(did.indices) > 0
    /\ Len(did.indices) < call.args[1]

\* the absolute deviations from the mean of the list handed to compute_dsi
C10_Deviations ==
    np_abs(np_subtract(np_array(call.args[1]), np_mean(np_array(call.args[1]))))

\* compute_dsi has returned for a list whose deviations from the mean are 0
\* or of magnitude 2^-500 to 2^500, so that no square overflows or underflows
C10_Case ==
    /\ Done
    /\ call.op = "compute_dsi"
    /\ outcome.kind = "return"
    /\ \A i \in 1..Len(call.args[1]) :
           \/ FIsZero(C10_Deviations[i])
           \/ /\ C10_Deviations[i].k = "fin"
              /\ C10_Deviations[i].e >= -552
              /\ C10_Deviations[i].e <= 447

\* C10, as stated: a value compute_dsi returns is >= 1
C10_AtLeastOne == C10_Case => FLe(LitOne, outcome.value)

\* C10, amended: a value compute_dsi returns is >= 1 - 1e-10 (rounding can
\* leave it just below 1)
C10_AtLeastOneRounded ==
    C10_Case => FLe(FSub(LitOne, Tolerance), outcome.value)

\* C10, reached: compute_dsi has returned a value below 1
C10_BelowOne == C10_Case /\ FLt(outcome.value, LitOne)

=============================================================================
